---- MODULE Spec2Model ----
(***************************************************************************)
(* Model of src/corelib/io/qnoncontiguousbytedevice.cpp: the read cursors  *)
(* QNonContiguousByteDeviceByteArrayImpl, ...BufferImpl, ...RingBufferImpl *)
(* and ...IoDeviceImpl.  One cursor of one class exists in a behaviour;     *)
(* its class is chosen in Init.  The cursor code never looks at the value  *)
(* of a byte, so contents are the sequences <<1, 2, ..., n>>: every byte   *)
(* is then told apart from every other, and a skipped, repeated or         *)
(* reordered byte is visible.                                              *)
(***************************************************************************)
EXTENDS Integers, Sequences, FiniteSets, TLC

MaxLen == 4        \* longest content of a source
MaxChunk == 2      \* largest chunk capacity (the code's is 16 KiB, line 254)
MaxRequest == 2    \* largest maximumLength passed to readPointer (besides -1)
MaxAmount == 3     \* largest amount passed to advanceReadPointer
MaxOverrun == 1    \* how far past the content the advance counters may run

Null == -1         \* nullptr; any other pointer is an offset into the storage
NoBuffer == <<>>   \* currentReadBuffer == nullptr
NoProgress == [current |-> -1, total |-> -1]   \* no readProgress emitted yet

VARIABLES
  kind,                       \* the cursor's class
  byteArray,                  \* ByteArrayImpl::byteArray (BufferImpl: the window)
  ringBuffer,                 \* RingBufferImpl::ringBuffer, a sequence of segments
  currentPosition,            \* ByteArrayImpl / RingBufferImpl ::currentPosition
  devData, devPos, devAvail, devClosed, devSequential,   \* IoDeviceImpl::device
  currentReadBuffer, currentReadBufferSize, currentReadBufferAmount,
  currentReadBufferPosition, totalAdvancements, eof, initialPosition,
  lastOp, lastArg,            \* the last call on the cursor and its argument
  len, ptr, ret,              \* what the last calls returned
  signals,                    \* readProgress emitted by the last call, in order
  prevProgress,               \* the last readProgress emitted before that call
  discipline, consumed, resetFrom,  \* the consumer's history since the last reset
  pc,                         \* QByteDeviceWrappingIoDevice: "readData" inside readData()
  readDataOut,                \* readData()'s data: what the last call copied out
  readDataRet,                \* what the last readData() returned
  delivered                   \* all that readData() copied since the last reset

arrVars == <<byteArray, ringBuffer, currentPosition>>
devVars == <<devData, devPos, devAvail, devClosed, devSequential>>
ioVars == <<currentReadBuffer, currentReadBufferSize, currentReadBufferAmount,
            currentReadBufferPosition, totalAdvancements, eof, initialPosition>>
callVars == <<lastOp, lastArg, len, ptr, ret, signals, prevProgress>>
userVars == <<discipline, consumed, resetFrom>>
adapterVars == <<pc, readDataOut, readDataRet, delivered>>
vars == <<kind, arrVars, devVars, ioVars, callVars, userVars, adapterVars>>

qMin(a, b) == IF a < b THEN a ELSE b

Pattern(n) == [i \in 1..n |-> i]
Contents == {Pattern(n) : n \in 0..MaxLen}

Kinds == {"ByteArray", "Buffer", "RingBuffer", "IoDevice"}
MaxLens == {-1} \cup (1..MaxRequest)     \* arguments of readPointer
Amounts == 0..MaxAmount                   \* arguments of advanceReadPointer

RECURSIVE Flatten(_)
Flatten(segs) == IF segs = <<>> THEN <<>> ELSE Head(segs) \o Flatten(Tail(segs))

(***************************************************************************)
(* The QIODevice behind IoDeviceImpl.  devData is everything the device    *)
(* will ever deliver, devPos how much of it has been read, devAvail how    *)
(* much of it has arrived (all of it for a random-access device), and      *)
(* devClosed whether a sequential device's read channel has finished.      *)
(***************************************************************************)
Device_isSequential == devSequential
Device_size == Len(devData)
Device_bytesAvailable(pos) == devAvail - pos
Device_atEnd(pos) == Device_bytesAvailable(pos) = 0
\* QIODevice::read: the number of bytes read from position pos, 0 when none is
\* there now, -1 when a sequential device is read past the end of its stream
Device_read(pos, maxSize) ==
  IF devSequential /\ devClosed /\ Device_bytesAvailable(pos) = 0
  THEN -1
  ELSE qMin(maxSize, Device_bytesAvailable(pos))
Device_getChar(pos) == Device_read(pos, 1) = 1
\* QIODevice::seek: refused by a sequential device
Device_seek(pos) == ~devSequential /\ pos <= Device_size
\* QIODevice::reset is seek(0)
Device_resetPosition == 0

\* QRingBuffer::readPointerAtPosition: the contiguous block that holds logical
\* position pos, as [ptr, length]; ptr is the logical offset
RECURSIVE RingBuffer_blockAt(_, _)
RingBuffer_blockAt(segs, pos) ==
  IF segs = <<>> THEN 0
  ELSE IF pos < Len(Head(segs)) THEN Len(Head(segs)) - pos
  ELSE RingBuffer_blockAt(Tail(segs), pos - Len(Head(segs)))
RingBuffer_size == Len(Flatten(ringBuffer))
RingBuffer_readPointerAtPosition(pos) ==
  LET length == RingBuffer_blockAt(ringBuffer, pos)
  IN [ptr |-> IF length = 0 THEN Null ELSE pos, length |-> length]

\* QByteArray::fromRawData(data + offset, n)
fromRawData(data, offset, n) == SubSeq(data, offset + 1, offset + n)

(***************************************************************************)
(* What the caller sees                                                    *)
(***************************************************************************)
Progress(current, total) == [current |-> current, total |-> total]
LastProgress == IF signals # <<>> THEN signals[Len(signals)] ELSE prevProgress

\* the memory a returned pointer points into
Storage ==
  CASE kind \in {"ByteArray", "Buffer"} -> byteArray
    [] kind = "RingBuffer" -> Flatten(ringBuffer)
    [] kind = "IoDevice" -> currentReadBuffer
\* the bytes the last readPointer lent out: len bytes from ptr
View == IF ptr = Null \/ len < 1 THEN <<>> ELSE SubSeq(Storage, ptr + 1, ptr + len)

(***************************************************************************)
(* QNonContiguousByteDeviceByteArrayImpl (and BufferImpl, which delegates) *)
(***************************************************************************)
ByteArrayImpl_size == Len(byteArray)
ByteArrayImpl_atEnd_Exact == currentPosition = ByteArrayImpl_size
ByteArrayImpl_atEnd == currentPosition >= ByteArrayImpl_size

ByteArrayImpl_readPointer(maximumLength) ==
  /\ IF ByteArrayImpl_atEnd
     THEN len' = -1 /\ ptr' = Null
     ELSE /\ len' = IF maximumLength # -1
                    THEN qMin(maximumLength, ByteArrayImpl_size - currentPosition)
                    ELSE ByteArrayImpl_size - currentPosition
          /\ ptr' = currentPosition
  /\ signals' = <<>>
  /\ UNCHANGED <<arrVars, ret>>

ByteArrayImpl_advanceReadPointer_Twice(amount) ==
  /\ currentPosition' = currentPosition + amount + amount
  /\ signals' = <<Progress(currentPosition + amount, ByteArrayImpl_size)>>
  /\ ret' = TRUE
  /\ UNCHANGED <<byteArray, ringBuffer>>
ByteArrayImpl_advanceReadPointer(amount) ==
  /\ currentPosition' = currentPosition + amount
  /\ signals' = <<Progress(currentPosition + amount, ByteArrayImpl_size)>>
  /\ ret' = TRUE
  /\ UNCHANGED <<byteArray, ringBuffer>>

ByteArrayImpl_reset ==
  /\ currentPosition' = 0
  /\ ret' = TRUE
  /\ UNCHANGED <<byteArray, ringBuffer>>

BufferImpl_readPointer(maximumLength) == ByteArrayImpl_readPointer(maximumLength)
BufferImpl_advanceReadPointer(amount) == ByteArrayImpl_advanceReadPointer(amount)
BufferImpl_atEnd == ByteArrayImpl_atEnd
BufferImpl_reset == ByteArrayImpl_reset
BufferImpl_size == ByteArrayImpl_size

(***************************************************************************)
(* QNonContiguousByteDeviceRingBufferImpl                                  *)
(***************************************************************************)
RingBufferImpl_size_FirstBlock ==
  IF ringBuffer = <<>> THEN 0 ELSE Len(Head(ringBuffer))
RingBufferImpl_size == RingBuffer_size
RingBufferImpl_atEnd == currentPosition >= RingBufferImpl_size

RingBufferImpl_readPointer(maximumLength) ==
  /\ IF RingBufferImpl_atEnd
     THEN len' = -1 /\ ptr' = Null
     ELSE LET block == RingBuffer_readPointerAtPosition(currentPosition)
          IN /\ len' = IF maximumLength # -1
                       THEN qMin(block.length, maximumLength)
                       ELSE block.length
             /\ ptr' = block.ptr
  /\ signals' = <<>>
  /\ UNCHANGED <<arrVars, ret>>

RingBufferImpl_advanceReadPointer(amount) ==
  /\ currentPosition' = currentPosition + amount
  /\ signals' = <<Progress(currentPosition + amount, RingBufferImpl_size)>>
  /\ ret' = TRUE
  /\ UNCHANGED <<byteArray, ringBuffer>>

RingBufferImpl_reset ==
  /\ currentPosition' = 0
  /\ ret' = TRUE
  /\ UNCHANGED <<byteArray, ringBuffer>>

(***************************************************************************)
(* QNonContiguousByteDeviceIoDeviceImpl                                    *)
(***************************************************************************)
IoDeviceImpl_size ==
  IF Device_isSequential THEN -1 ELSE Device_size - initialPosition
IoDeviceImpl_atEnd == eof

\* new QByteArray(currentReadBufferSize, '\0')
FreshBuffer == [i \in 1..currentReadBufferSize |-> 0]
\* the buffer after device->read() has stored n bytes from position pos in it
Filled(buf, pos, n) ==
  [i \in 1..Len(buf) |-> IF i <= n THEN devData[pos + i] ELSE buf[i]]

\* currentReadBuffer->data(): the chunk's first byte
ChunkStart == 0
\* line 287: where the view of the buffered bytes starts
BufferedPointer_Start == ChunkStart
BufferedPointer == ChunkStart + currentReadBufferPosition

\* line 293: the read found the end of the data
IsEndOfData_ErrorOnly(haveRead) == haveRead = -1
IsEndOfData_AnyDevice(haveRead) ==
  haveRead = -1 \/ (haveRead = 0 /\ Device_atEnd(devPos))
IsEndOfData(haveRead) ==
  haveRead = -1 \/ (haveRead = 0 /\ Device_atEnd(devPos) /\ ~Device_isSequential)

\* line 290: how many bytes readPointer asks the device for
ReadSize_Chunk(maxLen) == currentReadBufferSize
ReadSize(maxLen) == qMin(maxLen, currentReadBufferSize)

\* line 285: bytes of the chunk are still to be consumed
HasBuffered_Swapped == currentReadBufferPosition - currentReadBufferAmount > 0
HasBuffered == currentReadBufferAmount - currentReadBufferPosition > 0

IoDeviceImpl_readPointer(maximumLength) ==
  IF eof
  THEN /\ len' = -1 /\ ptr' = Null
       /\ signals' = <<>>
       /\ UNCHANGED <<devVars, ioVars, ret>>
  ELSE
    LET buf == IF currentReadBuffer = NoBuffer THEN FreshBuffer
               ELSE currentReadBuffer
        maxLen == IF maximumLength = -1 THEN currentReadBufferSize
                  ELSE maximumLength
        haveRead == Device_read(devPos, ReadSize(maxLen))
    IN
    IF HasBuffered
    THEN /\ len' = currentReadBufferAmount - currentReadBufferPosition
         /\ ptr' = BufferedPointer
         /\ currentReadBuffer' = buf
         /\ signals' = <<>>
         /\ UNCHANGED <<devVars, currentReadBufferSize, currentReadBufferAmount,
                        currentReadBufferPosition, totalAdvancements, eof,
                        initialPosition, ret>>
    ELSE IF IsEndOfData(haveRead)
    THEN /\ eof' = TRUE
         /\ len' = -1 /\ ptr' = Null
         /\ currentReadBuffer' = buf
         /\ signals' = IF IoDeviceImpl_size = -1
                       THEN <<Progress(totalAdvancements, totalAdvancements)>>
                       ELSE <<>>
         /\ UNCHANGED <<devVars, currentReadBufferSize, currentReadBufferAmount,
                        currentReadBufferPosition, totalAdvancements,
                        initialPosition, ret>>
    ELSE /\ currentReadBuffer' = Filled(buf, devPos, haveRead)
         /\ devPos' = devPos + haveRead
         /\ currentReadBufferAmount' = haveRead
         /\ currentReadBufferPosition' = 0
         /\ len' = haveRead /\ ptr' = ChunkStart
         /\ signals' = <<>>
         /\ UNCHANGED <<devData, devAvail, devClosed, devSequential,
                        currentReadBufferSize, totalAdvancements, eof,
                        initialPosition, ret>>

\* the loop of lines 324-330: i bytes still to discard with the device at pos;
\* stops with ok = FALSE at the first getChar that fails
RECURSIVE DiscardLoop(_, _)
DiscardLoop(i, pos) ==
  IF i > 0
  THEN IF ~Device_getChar(pos) THEN [ok |-> FALSE, i |-> i, pos |-> pos]
       ELSE DiscardLoop(i - 1, pos + 1)
  ELSE [ok |-> TRUE, i |-> i, pos |-> pos]

\* the notification of line 326, emitted when the discard loop fails with i left
FailedDiscardProgress_Requested(i) == Progress(totalAdvancements', IoDeviceImpl_size)
FailedDiscardProgress(i) == Progress(totalAdvancements' - i, IoDeviceImpl_size)

\* lines 316-319: the notification of every advance, after the counters moved
AdvanceProgress_Increment ==
  LET amount == totalAdvancements' - totalAdvancements
  IN IF IoDeviceImpl_size = -1 THEN Progress(amount, amount)
     ELSE Progress(amount, IoDeviceImpl_size)
AdvanceProgress ==
  IF IoDeviceImpl_size = -1
  THEN Progress(totalAdvancements', totalAdvancements')
  ELSE Progress(totalAdvancements', IoDeviceImpl_size)

\* line 323: how many bytes lie beyond what the chunk holds, position being
\* currentReadBufferPosition after the advance
Excess_Amount(position, amount) == amount
Excess(position, amount) == position - currentReadBufferAmount

IoDeviceImpl_advanceReadPointer(amount) ==
  LET position == currentReadBufferPosition + amount
      first == AdvanceProgress
      loop == DiscardLoop(Excess(position, amount), devPos)
  IN
  /\ totalAdvancements' = totalAdvancements + amount
  /\ IF position > currentReadBufferAmount
     THEN /\ devPos' = loop.pos
          /\ IF ~loop.ok
             THEN /\ signals' = <<first, FailedDiscardProgress(loop.i)>>
                  /\ ret' = FALSE
                  /\ currentReadBufferPosition' = position
                  /\ UNCHANGED currentReadBufferAmount
             ELSE /\ signals' = <<first>>
                  /\ ret' = TRUE
                  /\ currentReadBufferPosition' = 0
                  /\ currentReadBufferAmount' = 0
     ELSE /\ signals' = <<first>>
          /\ ret' = TRUE
          /\ currentReadBufferPosition' = position
          /\ UNCHANGED <<devPos, currentReadBufferAmount>>
  /\ UNCHANGED <<devData, devAvail, devClosed, devSequential, currentReadBuffer,
                 currentReadBufferSize, eof, initialPosition>>

\* line 346: where reset() rewinds the device to
ResetPosition_Rewind == Device_resetPosition
ResetPosition ==
  IF initialPosition = 0 THEN Device_resetPosition ELSE initialPosition

IoDeviceImpl_reset_ClearFirst ==
  /\ eof' = FALSE
  /\ totalAdvancements' = 0
  /\ currentReadBuffer' = NoBuffer
  /\ currentReadBufferAmount' = 0
  /\ currentReadBufferPosition' = 0
  /\ ret' = Device_seek(ResetPosition)
  /\ devPos' = IF Device_seek(ResetPosition) THEN ResetPosition ELSE devPos
  /\ UNCHANGED <<devData, devAvail, devClosed, devSequential,
                 currentReadBufferSize, initialPosition>>
IoDeviceImpl_reset ==
  IF Device_seek(ResetPosition)
  THEN /\ devPos' = ResetPosition
       /\ eof' = FALSE
       /\ totalAdvancements' = 0
       /\ currentReadBuffer' = NoBuffer
       /\ currentReadBufferAmount' = 0
       /\ currentReadBufferPosition' = 0
       /\ ret' = TRUE
       /\ UNCHANGED <<devData, devAvail, devClosed, devSequential,
                      currentReadBufferSize, initialPosition>>
  ELSE /\ ret' = FALSE
       /\ UNCHANGED <<devVars, ioVars>>

(***************************************************************************)
(* The virtual interface, dispatched on the cursor's class                 *)
(***************************************************************************)
size ==
  CASE kind = "ByteArray" -> ByteArrayImpl_size
    [] kind = "Buffer" -> BufferImpl_size
    [] kind = "RingBuffer" -> RingBufferImpl_size
    [] kind = "IoDevice" -> IoDeviceImpl_size
atEnd ==
  CASE kind = "ByteArray" -> ByteArrayImpl_atEnd
    [] kind = "Buffer" -> BufferImpl_atEnd
    [] kind = "RingBuffer" -> RingBufferImpl_atEnd
    [] kind = "IoDevice" -> IoDeviceImpl_atEnd

\* the bytes an exhaustive read is to deliver
Content ==
  CASE kind \in {"ByteArray", "Buffer"} -> byteArray
    [] kind = "RingBuffer" -> Flatten(ringBuffer)
    [] kind = "IoDevice" -> SubSeq(devData, initialPosition + 1, Len(devData))
\* the cursor's count of consumed bytes
Advanced == IF kind = "IoDevice" THEN totalAdvancements ELSE currentPosition

(***************************************************************************)
(* The caller's side of a call.  discipline is "loop" while every advance  *)
(* since construction or the last successful reset was by 1..len bytes of  *)
(* the view lent by the readPointer before it, "overrun" once an advance   *)
(* went past the data the source could supply, and "free" otherwise;       *)
(* consumed is what a "loop" consumer took out of the views it was lent.   *)
(***************************************************************************)
ReadPointerCall(maximumLength) ==
  /\ lastOp' = "readPointer" /\ lastArg' = maximumLength
  /\ prevProgress' = LastProgress
  /\ UNCHANGED userVars

AdvanceCall(amount, overran) ==
  LET d == IF discipline = "overrun" \/ overran THEN "overrun"
           ELSE IF discipline = "loop" /\ 1 <= amount /\ amount <= len
                THEN "loop" ELSE "free"
  IN /\ lastOp' = "advanceReadPointer" /\ lastArg' = amount
     /\ len' = -1 /\ ptr' = Null
     /\ prevProgress' = LastProgress
     /\ discipline' = d
     /\ consumed' = IF d = "loop" THEN consumed \o SubSeq(View, 1, amount)
                    ELSE <<>>
     /\ UNCHANGED resetFrom

ResetCall ==
  /\ lastOp' = "reset" /\ lastArg' = 0
  /\ len' = -1 /\ ptr' = Null
  /\ signals' = <<>>
  /\ IF ret'
     THEN /\ prevProgress' = NoProgress
          /\ discipline' = "loop" /\ consumed' = <<>>
          /\ resetFrom' = discipline
     ELSE /\ prevProgress' = LastProgress
          /\ UNCHANGED userVars

CanAdvance(amount) == Advanced + amount <= Len(Content) + MaxOverrun

(***************************************************************************)
(* Actions: the calls on the cursor                                        *)
(***************************************************************************)
ByteArrayReadPointer(maximumLength) ==
  /\ kind = "ByteArray"
  /\ ByteArrayImpl_readPointer(maximumLength)
  /\ ReadPointerCall(maximumLength)
  /\ UNCHANGED <<kind, devVars, ioVars, adapterVars>>

ByteArrayAdvance(amount) ==
  /\ kind = "ByteArray" /\ CanAdvance(amount)
  /\ ByteArrayImpl_advanceReadPointer(amount)
  /\ AdvanceCall(amount, currentPosition' > ByteArrayImpl_size)
  /\ UNCHANGED <<kind, devVars, ioVars, adapterVars>>

ByteArrayReset ==
  /\ kind = "ByteArray"
  /\ ByteArrayImpl_reset
  /\ ResetCall
  /\ UNCHANGED <<kind, devVars, ioVars, adapterVars>>

BufferReadPointer(maximumLength) ==
  /\ kind = "Buffer"
  /\ BufferImpl_readPointer(maximumLength)
  /\ ReadPointerCall(maximumLength)
  /\ UNCHANGED <<kind, devVars, ioVars, adapterVars>>

BufferAdvance(amount) ==
  /\ kind = "Buffer" /\ CanAdvance(amount)
  /\ BufferImpl_advanceReadPointer(amount)
  /\ AdvanceCall(amount, currentPosition' > BufferImpl_size)
  /\ UNCHANGED <<kind, devVars, ioVars, adapterVars>>

BufferReset ==
  /\ kind = "Buffer"
  /\ BufferImpl_reset
  /\ ResetCall
  /\ UNCHANGED <<kind, devVars, ioVars, adapterVars>>

RingBufferReadPointer(maximumLength) ==
  /\ kind = "RingBuffer"
  /\ RingBufferImpl_readPointer(maximumLength)
  /\ ReadPointerCall(maximumLength)
  /\ UNCHANGED <<kind, devVars, ioVars, adapterVars>>

RingBufferAdvance(amount) ==
  /\ kind = "RingBuffer" /\ CanAdvance(amount)
  /\ RingBufferImpl_advanceReadPointer(amount)
  /\ AdvanceCall(amount, currentPosition' > RingBufferImpl_size)
  /\ UNCHANGED <<kind, devVars, ioVars, adapterVars>>

RingBufferReset ==
  /\ kind = "RingBuffer"
  /\ RingBufferImpl_reset
  /\ ResetCall
  /\ UNCHANGED <<kind, devVars, ioVars, adapterVars>>

IoDeviceReadPointer(maximumLength) ==
  /\ kind = "IoDevice"
  /\ IoDeviceImpl_readPointer(maximumLength)
  /\ ReadPointerCall(maximumLength)
  /\ UNCHANGED <<kind, arrVars, adapterVars>>

IoDeviceAdvance(amount) ==
  /\ kind = "IoDevice" /\ CanAdvance(amount)
  /\ IoDeviceImpl_advanceReadPointer(amount)
  /\ AdvanceCall(amount, ~ret')
  /\ UNCHANGED <<kind, arrVars, adapterVars>>

IoDeviceReset ==
  /\ kind = "IoDevice"
  /\ IoDeviceImpl_reset
  /\ ResetCall
  /\ UNCHANGED <<kind, arrVars, adapterVars>>

(***************************************************************************)
(* Actions: the cursor's surroundings                                      *)
(***************************************************************************)
EnvStep == lastOp' = "env" /\ UNCHANGED <<lastArg, len, ptr, ret, signals,
                                          prevProgress, userVars>>

\* a producer appends a byte to the shared ring buffer, in the last segment or
\* in a new one
RingBufferAppend ==
  /\ kind = "RingBuffer" /\ RingBuffer_size < MaxLen
  /\ LET byte == RingBuffer_size + 1
         n == Len(ringBuffer)
     IN \/ ringBuffer' = Append(ringBuffer, <<byte>>)
        \/ /\ n > 0
           /\ ringBuffer' = [ringBuffer EXCEPT ![n] = Append(@, byte)]
  /\ EnvStep
  /\ UNCHANGED <<kind, byteArray, currentPosition, devVars, ioVars, adapterVars>>

\* more of a sequential device's stream arrives
DeviceArrive ==
  /\ kind = "IoDevice" /\ devSequential /\ ~devClosed
  /\ devAvail < Len(devData)
  /\ devAvail' = devAvail + 1
  /\ EnvStep
  /\ UNCHANGED <<kind, arrVars, devData, devPos, devClosed, devSequential, ioVars,
                 adapterVars>>

\* a sequential device's read channel finishes
DeviceClose ==
  /\ kind = "IoDevice" /\ devSequential /\ ~devClosed
  /\ devAvail = Len(devData)
  /\ devClosed' = TRUE
  /\ EnvStep
  /\ UNCHANGED <<kind, arrVars, devData, devPos, devAvail, devSequential, ioVars,
                 adapterVars>>

(***************************************************************************)
(* Construction                                                            *)
(***************************************************************************)
InitCall ==
  /\ lastOp = "none" /\ lastArg = 0
  /\ len = -1 /\ ptr = Null /\ ret = TRUE
  /\ signals = <<>> /\ prevProgress = NoProgress
  /\ discipline = "loop" /\ consumed = <<>> /\ resetFrom = "none"
  /\ pc = "idle" /\ readDataOut = <<>> /\ readDataRet = 0 /\ delivered = <<>>

NoArray == byteArray = <<>> /\ ringBuffer = <<>> /\ currentPosition = 0
NoDevice ==
  /\ devData = <<>> /\ devPos = 0 /\ devAvail = 0
  /\ devClosed = FALSE /\ devSequential = FALSE
  /\ currentReadBuffer = NoBuffer /\ currentReadBufferSize = 0
  /\ currentReadBufferAmount = 0 /\ currentReadBufferPosition = 0
  /\ totalAdvancements = 0 /\ eof = FALSE /\ initialPosition = 0

ByteArrayImpl_Init ==
  /\ kind = "ByteArray"
  /\ byteArray \in Contents
  /\ currentPosition = 0
  /\ ringBuffer = <<>>
  /\ NoDevice

\* the window from buffer->pos() to the end of the buffer's data
BufferImpl_Init ==
  /\ kind = "Buffer"
  /\ \E buffer \in Contents : \E pos \in 0..Len(buffer) :
        byteArray = fromRawData(buffer, pos, Len(buffer) - pos)
  /\ currentPosition = 0
  /\ ringBuffer = <<>>
  /\ NoDevice

RingBufferImpl_Init ==
  /\ kind = "RingBuffer"
  /\ NoArray
  /\ NoDevice

IoDeviceImpl_Init ==
  /\ kind = "IoDevice"
  /\ NoArray
  /\ devData \in Contents
  /\ devSequential \in BOOLEAN
  /\ devPos \in (IF devSequential THEN {0} ELSE 0..Len(devData))
  /\ devAvail = IF devSequential THEN 0 ELSE Len(devData)
  /\ devClosed = FALSE
  /\ currentReadBuffer = NoBuffer
  /\ currentReadBufferSize \in 1..MaxChunk
  /\ currentReadBufferAmount = 0
  /\ currentReadBufferPosition = 0
  /\ totalAdvancements = 0
  /\ eof = FALSE
  /\ initialPosition = devPos

Init ==
  /\ InitCall
  /\ \/ ByteArrayImpl_Init
     \/ BufferImpl_Init
     \/ RingBufferImpl_Init
     \/ IoDeviceImpl_Init

Next ==
  \/ \E m \in MaxLens : ByteArrayReadPointer(m)
  \/ \E a \in Amounts : ByteArrayAdvance(a)
  \/ ByteArrayReset
  \/ \E m \in MaxLens : BufferReadPointer(m)
  \/ \E a \in Amounts : BufferAdvance(a)
  \/ BufferReset
  \/ \E m \in MaxLens : RingBufferReadPointer(m)
  \/ \E a \in Amounts : RingBufferAdvance(a)
  \/ RingBufferReset
  \/ \E m \in MaxLens : IoDeviceReadPointer(m)
  \/ \E a \in Amounts : IoDeviceAdvance(a)
  \/ IoDeviceReset
  \/ RingBufferAppend
  \/ DeviceArrive
  \/ DeviceClose

Spec == Init /\ [][Next]_vars

(***************************************************************************)
(* QByteDeviceWrappingIoDevice: a QIODevice over a cursor.  readData() runs *)
(* to completion: between its readPointer() and the rest of it nothing     *)
(* else is enabled.                                                        *)
(***************************************************************************)
readPointer(maximumLength) ==
  CASE kind = "ByteArray" ->
         ByteArrayImpl_readPointer(maximumLength) /\ UNCHANGED <<devVars, ioVars>>
    [] kind = "Buffer" ->
         BufferImpl_readPointer(maximumLength) /\ UNCHANGED <<devVars, ioVars>>
    [] kind = "RingBuffer" ->
         RingBufferImpl_readPointer(maximumLength) /\ UNCHANGED <<devVars, ioVars>>
    [] kind = "IoDevice" ->
         IoDeviceImpl_readPointer(maximumLength) /\ UNCHANGED arrVars

advanceReadPointer(amount) ==
  CASE kind = "ByteArray" ->
         /\ ByteArrayImpl_advanceReadPointer(amount)
         /\ AdvanceCall(amount, currentPosition' > ByteArrayImpl_size)
         /\ UNCHANGED <<devVars, ioVars>>
    [] kind = "Buffer" ->
         /\ BufferImpl_advanceReadPointer(amount)
         /\ AdvanceCall(amount, currentPosition' > BufferImpl_size)
         /\ UNCHANGED <<devVars, ioVars>>
    [] kind = "RingBuffer" ->
         /\ RingBufferImpl_advanceReadPointer(amount)
         /\ AdvanceCall(amount, currentPosition' > RingBufferImpl_size)
         /\ UNCHANGED <<devVars, ioVars>>
    [] kind = "IoDevice" ->
         /\ IoDeviceImpl_advanceReadPointer(amount)
         /\ AdvanceCall(amount, ~ret')
         /\ UNCHANGED arrVars

reset ==
  CASE kind = "ByteArray" -> ByteArrayImpl_reset /\ UNCHANGED <<devVars, ioVars>>
    [] kind = "Buffer" -> BufferImpl_reset /\ UNCHANGED <<devVars, ioVars>>
    [] kind = "RingBuffer" -> RingBufferImpl_reset /\ UNCHANGED <<devVars, ioVars>>
    [] kind = "IoDevice" -> IoDeviceImpl_reset /\ UNCHANGED arrVars

\* QIODevice::read() asks readData() for at least one byte
MaxSizes == 1..MaxRequest

\* line 417: const char *readPointer = byteDevice->readPointer(maxSize, len);
WrappingIoDevice_readData_readPointer(maxSize) ==
  /\ pc = "idle"
  /\ readPointer(maxSize)
  /\ ReadPointerCall(maxSize)
  /\ pc' = "readData"
  /\ UNCHANGED <<kind, readDataOut, readDataRet, delivered>>

\* line 422: how far readData() advances the cursor
ReadData_advance_maxSize == lastArg
ReadData_advance == len

\* lines 418-423: the rest of readData()
WrappingIoDevice_readData_return ==
  /\ pc = "readData"
  /\ IF len = -1
     THEN /\ readDataRet' = -1
          /\ UNCHANGED <<arrVars, devVars, ioVars, callVars, userVars,
                         readDataOut, delivered>>
     ELSE /\ readDataOut' = SubSeq(View, 1, len)
          /\ delivered' = delivered \o SubSeq(View, 1, len)
          /\ advanceReadPointer(ReadData_advance)
          /\ readDataRet' = len
  /\ pc' = "idle"
  /\ UNCHANGED kind

\* lines 401-404
WrappingIoDevice_reset ==
  /\ pc = "idle"
  /\ reset
  /\ ResetCall
  /\ delivered' = IF ret' THEN <<>> ELSE delivered
  /\ UNCHANGED <<kind, pc, readDataOut, readDataRet>>

AdapterEnv ==
  /\ pc = "idle"
  /\ (RingBufferAppend \/ DeviceArrive \/ DeviceClose)

AdapterNext ==
  \/ \E maxSize \in MaxSizes : WrappingIoDevice_readData_readPointer(maxSize)
  \/ WrappingIoDevice_readData_return
  \/ WrappingIoDevice_reset
  \/ AdapterEnv

SpecAdapter == Init /\ [][AdapterNext]_vars

(***************************************************************************)
(* The end-to-end scenario: an IoDeviceImpl with a chunk of 4 bytes over a *)
(* random-access device that holds "HELLOWORLD", read from its start by a  *)
(* consumer that advances within what it was lent.                         *)
(***************************************************************************)
HELLOWORLD == <<72, 69, 76, 76, 79, 87, 79, 82, 76, 68>>

ScenarioInit ==
  /\ InitCall
  /\ kind = "IoDevice"
  /\ NoArray
  /\ devData = HELLOWORLD
  /\ devSequential = FALSE
  /\ devPos = 0
  /\ devAvail = Len(HELLOWORLD)
  /\ devClosed = FALSE
  /\ currentReadBuffer = NoBuffer
  /\ currentReadBufferSize = 4
  /\ currentReadBufferAmount = 0
  /\ currentReadBufferPosition = 0
  /\ totalAdvancements = 0
  /\ eof = FALSE
  /\ initialPosition = devPos

ScenarioMaxLens == {-1} \cup (1..currentReadBufferSize)
ScenarioReadPointer(maximumLength) == IoDeviceReadPointer(maximumLength)
ScenarioAdvance(amount) ==
  /\ 1 <= amount /\ amount <= len
  /\ IoDeviceAdvance(amount)
ScenarioReset == IoDeviceReset

ScenarioNext ==
  \/ \E maximumLength \in ScenarioMaxLens : ScenarioReadPointer(maximumLength)
  \/ \E amount \in 1..currentReadBufferSize : ScenarioAdvance(amount)
  \/ ScenarioReset

SpecScenario == ScenarioInit /\ [][ScenarioNext]_vars

(***************************************************************************)
(* The read loop over a random-access device that nothing else reads:      *)
(*   while (!atEnd()) { readPointer(maxLen, len);                          *)
(*                      if (len > 0) advanceReadPointer(len); }            *)
(* The consumer keeps running, so the loop's next step is taken whenever   *)
(* there is one.                                                           *)
(***************************************************************************)
LoopInit ==
  /\ InitCall
  /\ IoDeviceImpl_Init
  /\ ~devSequential

LoopReadPointer(maxLen) ==
  /\ ~atEnd
  /\ ~(lastOp = "readPointer" /\ len > 0)
  /\ IoDeviceReadPointer(maxLen)

LoopAdvance ==
  /\ ~atEnd
  /\ lastOp = "readPointer" /\ len > 0
  /\ IoDeviceAdvance(len)

LoopNext ==
  \/ \E maxLen \in MaxLens : LoopReadPointer(maxLen)
  \/ LoopAdvance

SpecLoop == LoopInit /\ [][LoopNext]_vars /\ WF_vars(LoopNext)

(***************************************************************************)
(* Properties                                                              *)
(***************************************************************************)
IsPrefix(s, t) == Len(s) <= Len(t) /\ s = SubSeq(t, 1, Len(s))

\* C1 (exhaustive-read round trip): a consumer that, from construction on, only
\* advances by 1..len bytes of the view the readPointer before lent it has
\* taken the bytes of the content in order, none skipped or repeated, and by
\* the time atEnd() is true it has taken all of them.
C1_ExhaustiveRead ==
  (resetFrom = "none" /\ discipline = "loop")
    => /\ IsPrefix(consumed, Content)
       /\ atEnd => consumed = Content

C1_Witness ==
  /\ kind = "IoDevice" /\ ~devSequential /\ initialPosition = 1
  /\ resetFrom = "none" /\ discipline = "loop"
  /\ atEnd /\ consumed = Content /\ Len(consumed) >= 3

\* C2 (idempotent reset): after a reset() that returned true, whatever the
\* calls before it were, the same consumer takes the bytes of the content in
\* order again and has all of them when atEnd() is true; an IoDeviceImpl
\* replays from the position recorded at construction.
C2_IdempotentReset ==
  (resetFrom # "none" /\ discipline = "loop")
    => /\ IsPrefix(consumed, Content)
       /\ atEnd => consumed = Content

C2_Witness ==
  /\ kind = "IoDevice" /\ initialPosition = 1
  /\ resetFrom = "overrun" /\ discipline = "loop"
  /\ atEnd /\ consumed = Content /\ Len(consumed) >= 2

\* C3 (partial-length respect): readPointer(maximumLength = N), N # -1, never
\* returns len > N.
C3_PartialLengthRespect ==
  (lastOp = "readPointer" /\ lastArg # -1) => len <= lastArg

\* the current values of the readProgress notifications of the last call, after
\* that of the last notification before it (-1 when there was none)
Currents ==
  <<prevProgress.current>> \o [i \in 1..Len(signals) |-> signals[i].current]
Monotone == \A i \in 1..Len(signals) : Currents[i] <= Currents[i + 1]
WithinSize ==
  size # -1 => \A i \in 1..Len(signals) : signals[i].current <= size

\* C4 as claimed (progress monotonicity, advances past the end included):
\* between two resets the current values of successive readProgress
\* notifications never decrease, and none exceeds size() when size() is known.
C4_ProgressMonotone_Claimed == Monotone /\ WithinSize

\* C4 as amended: the same, for as long as no advance went past the data the
\* source could supply (position > size() for the array and ring cursors, an
\* advanceReadPointer that returned false for IoDeviceImpl).
C4_ProgressMonotone ==
  discipline # "overrun" => Monotone /\ WithinSize

\* an advance that overshot the buffered bytes, succeeded and was reported
C4_Witness ==
  /\ kind = "IoDevice" /\ discipline = "free"
  /\ lastOp = "advanceReadPointer" /\ ret /\ lastArg = 3
  /\ currentReadBufferAmount = 0 /\ devPos > initialPosition
  /\ prevProgress.current >= 1
  /\ signals = <<Progress(totalAdvancements, size)>>
  /\ totalAdvancements > prevProgress.current

\* the source was found exhausted: by readPointer, or by the discard loop of an
\* advanceReadPointer on a finished stream
SourceExhausted ==
  \/ eof
  \/ /\ lastOp = "advanceReadPointer" /\ ~ret
     /\ devClosed /\ devPos = Len(devData)

\* C5 (unknown-size finalization): for an IoDeviceImpl whose size() is -1, once
\* the source is found exhausted, by readPointer or by the discard loop of
\* advanceReadPointer, the last readProgress emitted has total = current.
C5_UnknownSizeFinalization ==
  (kind = "IoDevice" /\ IoDeviceImpl_size = -1 /\ SourceExhausted)
    => LastProgress.total = LastProgress.current

\* the unconsumed bytes of the chunk
Buffered == currentReadBufferAmount - currentReadBufferPosition
\* how many bytes of the content the cursor has moved past
LogicalPosition ==
  devPos - initialPosition - (IF Buffered > 0 THEN Buffered ELSE 0)

\* an advanceReadPointer(a) with b >= 0 bytes buffered, a > b, and a - b bytes
\* to be had from the device
C6_OvershootStep ==
  (/\ kind = "IoDevice" /\ lastOp' = "advanceReadPointer"
   /\ Buffered >= 0 /\ lastArg' > Buffered
   /\ Device_bytesAvailable(devPos) >= lastArg' - Buffered)
  => /\ ret' = TRUE
     /\ devPos' = devPos + (lastArg' - Buffered)
     /\ currentReadBufferPosition' = 0 /\ currentReadBufferAmount' = 0
     /\ LogicalPosition' = LogicalPosition + lastArg'
AfterOvershoot ==
  /\ kind = "IoDevice" /\ lastOp = "advanceReadPointer" /\ ret /\ lastArg > 0
  /\ currentReadBufferPosition = 0 /\ currentReadBufferAmount = 0
C6_NextRead ==
  (AfterOvershoot /\ lastOp' = "readPointer" /\ len' >= 1)
  => /\ View'[1] = Content[LogicalPosition + 1]
     /\ discipline # "overrun" => LogicalPosition = totalAdvancements

\* C6 (overshoot semantics): when the chunk holds b >= 0 unconsumed bytes and
\* the device can supply a - b more, advanceReadPointer(a) with a > b returns
\* true, takes exactly a - b bytes off the device, leaves the chunk drained and
\* moves the cursor a bytes on in the content; the readPointer after it returns
\* a view that starts at the content byte at that logical index.
C6_OvershootSemantics == [][C6_OvershootStep /\ C6_NextRead]_vars

\* the chunk held the first two bytes of four, and advance(3) took one more
\* off the device and drained the chunk
C6_Witness ==
  /\ kind = "IoDevice" /\ initialPosition = 0 /\ Len(devData) = 4
  /\ lastOp = "advanceReadPointer" /\ lastArg = 3 /\ ret
  /\ currentReadBuffer = <<devData[1], devData[2]>>
  /\ totalAdvancements = 3 /\ devPos = 3
  /\ currentReadBufferPosition = 0 /\ currentReadBufferAmount = 0
  /\ signals = <<Progress(3, 4)>>

\* a sequential device that has nothing to read now and has not finished
Stalled ==
  devSequential /\ ~devClosed /\ Device_bytesAvailable(devPos) = 0

C7_StalledRead ==
  (kind = "IoDevice" /\ lastOp' = "readPointer" /\ ~eof /\ Buffered <= 0 /\ Stalled)
    => (len' = 0 /\ ptr' = ChunkStart /\ ~atEnd')
C7_Retry ==
  (/\ kind = "IoDevice" /\ lastOp' = "readPointer" /\ ~eof /\ Buffered <= 0
   /\ devSequential /\ Device_bytesAvailable(devPos) >= 1)
    => /\ len' >= 1 /\ ptr' # Null /\ ~atEnd'
       /\ View' = SubSeq(devData, devPos + 1, devPos + len')

C8_AtEndPermanent_Claimed ==
  [][(atEnd /\ lastOp' # "reset")
       => (atEnd' /\ (lastOp' = "readPointer" => len' = -1))]_vars

\* C8 as amended: the same, for as long as no producer appends to the ring
\* buffer of a RingBufferImpl (and until a reset() that returns true).
C8_AtEndPermanent ==
  [][(atEnd /\ ~(lastOp' = "reset" /\ ret') /\ ringBuffer' = ringBuffer)
       => (atEnd' /\ (lastOp' = "readPointer" => len' = -1))]_vars

\* a readPointer refused on a cursor that had advanced past its end
C8_Witness ==
  /\ kind = "ByteArray" /\ Len(byteArray) >= 2
  /\ currentPosition > Len(byteArray) /\ atEnd
  /\ lastOp = "readPointer" /\ len = -1 /\ ptr = Null

\* C9 (reset failure leaves the state unchanged): an IoDeviceImpl reset() that
\* returns false changes neither eof, totalAdvancements, the chunk and its two
\* counters nor the device position, and emits no readProgress.
C9_ResetFailure ==
  [][(kind = "IoDevice" /\ lastOp' = "reset" /\ ~ret')
       => /\ UNCHANGED <<eof, totalAdvancements, currentReadBufferAmount,
                        currentReadBufferPosition, currentReadBuffer, devPos>>
          /\ signals' = <<>>]_vars

C9_Witness ==
  /\ kind = "IoDevice" /\ lastOp = "reset" /\ ~ret
  /\ eof /\ totalAdvancements >= 2 /\ currentReadBufferAmount >= 1
  /\ currentReadBuffer # NoBuffer

\* an advanceReadPointer step: the excess over the chunk, the bytes taken off
\* the device, and the current value of the last notification
StepExcess == currentReadBufferPosition + lastArg' - currentReadBufferAmount
StepDiscarded == devPos' - devPos
EndOfSourceBefore(n) == n > Len(devData) - devPos
CannotSupply(n) == n > Device_bytesAvailable(devPos)
StepReportsConsumed ==
  /\ LastProgress'.current
       = totalAdvancements + lastArg' - (StepExcess - StepDiscarded)
  /\ Buffered >= 0
       => LastProgress'.current = totalAdvancements + Buffered + StepDiscarded

\* C10 as claimed (overshoot-discard failure): advanceReadPointer returns
\* false exactly when the excess is more than what is left of the source (of
\* the whole stream of a sequential device), and then its last notification
\* reports the bytes actually consumed.
C10_DiscardFailure_Claimed ==
  [][(kind = "IoDevice" /\ lastOp' = "advanceReadPointer")
       => /\ ~ret' <=> EndOfSourceBefore(StepExcess)
          /\ ~ret' => StepReportsConsumed]_vars

\* C10 as amended: it returns false exactly when the device cannot supply the
\* excess bytes now: at the end of the source, or on a sequential device that
\* has no byte to read at that moment.
C10_DiscardFailure ==
  [][(kind = "IoDevice" /\ lastOp' = "advanceReadPointer")
       => /\ ~ret' <=> CannotSupply(StepExcess)
          /\ ~ret' => StepReportsConsumed]_vars

\* a discard that failed on a sequential device that had not finished, after
\* it took two bytes off it
C10_Witness ==
  /\ kind = "IoDevice" /\ devSequential /\ ~devClosed
  /\ lastOp = "advanceReadPointer" /\ ~ret /\ lastArg = 3
  /\ signals = <<Progress(3, 3), Progress(2, -1)>>
  /\ devPos = 2

(***************************************************************************)
(* C11: every advanceReadPointer(n), on every variant, emits before it     *)
(* returns a readProgress(current, total) in which current is the          *)
(* cursor's count of consumed bytes after n was added to it and total is   *)
(* size() when the size is known and current when it is not.               *)
(***************************************************************************)
TotalFor(current) == IF size = -1 THEN current ELSE size
C11_AdvanceNotifies ==
  [][lastOp' = "advanceReadPointer"
       => /\ Advanced' = Advanced + lastArg'
          /\ Len(signals') >= 1
          /\ signals'[1] = Progress(Advanced', TotalFor(Advanced'))]_vars
C11_Witness ==
  /\ lastOp = "advanceReadPointer" /\ kind = "IoDevice" /\ devSequential
  /\ lastArg = 1 /\ totalAdvancements = 2
  /\ signals = <<Progress(2, 2)>>

(***************************************************************************)
(* C12: readData(data, maxSize) of the adapter makes one                   *)
(* readPointer(maxSize); when that gave len = -1 it returns -1 and does    *)
(* not advance or change the cursor; otherwise it copies exactly the len   *)
(* bytes of the view, advances the cursor by len, once, and returns len.   *)
(* What successive readData calls deliver is therefore the content, in     *)
(* order, and all of it once the cursor is at its end.                     *)
(***************************************************************************)
C12_ReadDataStep ==
  /\ (pc = "idle" /\ pc' = "readData")
       => /\ lastOp' = "readPointer" /\ lastArg' \in MaxSizes
          /\ UNCHANGED <<readDataOut, readDataRet, delivered>>
  /\ (pc = "readData" /\ pc' = "idle" /\ len = -1)
       => /\ readDataRet' = -1
          /\ UNCHANGED <<arrVars, devVars, ioVars, lastOp, readDataOut, delivered>>
  /\ (pc = "readData" /\ pc' = "idle" /\ len # -1)
       => /\ readDataRet' = len
          /\ Len(readDataOut') = len
          /\ readDataOut' = View
          /\ lastOp' = "advanceReadPointer" /\ lastArg' = len
          /\ Advanced' = Advanced + len
          /\ delivered' = delivered \o readDataOut'
C12_ReadDataPassThrough ==
  /\ [][C12_ReadDataStep]_vars
  /\ [](IsPrefix(delivered, Content))
  /\ []((pc = "idle" /\ atEnd) => delivered = Content)
C12_Witness ==
  /\ pc = "idle" /\ kind = "IoDevice" /\ devSequential
  /\ lastOp = "advanceReadPointer" /\ lastArg = 1 /\ readDataRet = 1
  /\ readDataOut = <<3>> /\ delivered = <<1, 2, 3>>

(***************************************************************************)
(* C13 (end-to-end scenario): for an IoDeviceImpl with a chunk of 4 bytes  *)
(* over "HELLOWORLD": the first readPointer(-1) gives len 4 and "HELL";    *)
(* after advance(4) readPointer(-1) gives len 4 and "OWOR"; after          *)
(* advance(2) readPointer(-1) gives the 2 bytes still buffered; going on   *)
(* the cursor reaches atEnd() with all of "HELLOWORLD" read; reset()       *)
(* returns true and a second full read yields "HELLOWORLD" again.          *)
(* As claimed, the 2 bytes still buffered after advance(2) are "LD".       *)
(***************************************************************************)
HELL == SubSeq(HELLOWORLD, 1, 4)
OWOR == SubSeq(HELLOWORLD, 5, 8)
OR == SubSeq(HELLOWORLD, 7, 8)
LD == SubSeq(HELLOWORLD, 9, 10)
\* the cursor's counters and the device's position
Cursor(total, amount, position, pos) ==
  /\ totalAdvancements = total /\ currentReadBufferAmount = amount
  /\ currentReadBufferPosition = position /\ devPos = pos /\ ~eof
ReadsAll == lastOp' = "readPointer" /\ lastArg' = -1
Advances(amount) == lastOp' = "advanceReadPointer" /\ lastArg' = amount
C13_Steps ==
  /\ (Cursor(0, 0, 0, 0) /\ ReadsAll)
       => len' = 4 /\ View' = HELL /\ Cursor(0, 4, 0, 4)'
  /\ (Cursor(0, 4, 0, 4) /\ Advances(4)) => ret' /\ Cursor(4, 4, 4, 4)'
  /\ (Cursor(4, 4, 4, 4) /\ ReadsAll)
       => len' = 4 /\ View' = OWOR /\ Cursor(4, 4, 0, 8)'
  /\ (Cursor(4, 4, 0, 8) /\ Advances(2)) => ret' /\ Cursor(6, 4, 2, 8)'
  /\ lastOp' = "reset" => ret' /\ Cursor(0, 0, 0, 0)'
C13_ThirdRead(bytes) ==
  (Cursor(6, 4, 2, 8) /\ ReadsAll) => len' = 2 /\ View' = bytes
C13_Scenario_Claimed ==
  /\ ScenarioInit => Cursor(0, 0, 0, 0)
  /\ [][C13_Steps /\ C13_ThirdRead(LD)]_vars
  /\ [](atEnd => consumed = HELLOWORLD)

\* C13 as amended: the 2 bytes still buffered after advance(2) are "OR", the
\* rest of the chunk "OWOR"; "LD" is what the read after the next advance(2)
\* fetches.
C13_Scenario ==
  /\ ScenarioInit => Cursor(0, 0, 0, 0)
  /\ [][/\ C13_Steps
        /\ C13_ThirdRead(OR)
        /\ (Cursor(6, 4, 2, 8) /\ Advances(2)) => ret' /\ Cursor(8, 4, 4, 8)'
        /\ (Cursor(8, 4, 4, 8) /\ ReadsAll)
             => len' = 2 /\ View' = LD /\ Cursor(8, 2, 0, 10)']_vars
  /\ [](atEnd => consumed = HELLOWORLD)
C13_Witness ==
  /\ lastOp = "readPointer" /\ lastArg = -1 /\ Cursor(6, 4, 2, 8)
  /\ currentReadBufferSize = 4 /\ currentReadBuffer = OWOR
  /\ len = 2 /\ View = OR /\ consumed = HELL \o SubSeq(OWOR, 1, 2)
  /\ resetFrom = "loop"

(***************************************************************************)
(* C14 (buffer invariant): in every reachable state of an IoDeviceImpl,    *)
(* the state after an advance that returned false included,                *)
(* 0 <= currentReadBufferPosition <= currentReadBufferAmount               *)
(*   <= currentReadBufferSize.                                             *)
(***************************************************************************)
C14_BufferInvariant ==
  kind = "IoDevice"
    => /\ 0 <= currentReadBufferPosition
       /\ currentReadBufferPosition <= currentReadBufferAmount
       /\ currentReadBufferAmount <= currentReadBufferSize

(***************************************************************************)
(* C15 (position invariant): in every state a ByteArrayImpl, and hence a   *)
(* BufferImpl, reaches by readPointer, advanceReadPointer(amount >= 0) and *)
(* reset, 0 <= currentPosition <= size().                                  *)
(***************************************************************************)
OverArray == kind \in {"ByteArray", "Buffer"}
C15_PositionInvariant_Claimed ==
  OverArray => 0 <= currentPosition /\ currentPosition <= size

\* C15 as amended: currentPosition is never negative, reset makes it 0, and
\* currentPosition <= size() is kept by every call but an advance by more
\* bytes than are left, so it holds for as long as no advance went past the
\* end of the array.
PastTheEnd ==
  lastOp' = "advanceReadPointer" /\ lastArg' > size - currentPosition
C15_PositionStep ==
  OverArray
    => /\ lastOp' = "reset" => currentPosition' = 0
       /\ (currentPosition <= size /\ ~PastTheEnd) => currentPosition' <= size'
       /\ (lastOp' = "advanceReadPointer" /\ 0 <= len /\ lastArg' <= len)
            => ~PastTheEnd
C15_PositionInvariant ==
  /\ [](OverArray => 0 <= currentPosition)
  /\ []((OverArray /\ discipline # "overrun") => currentPosition <= size)
  /\ [][C15_PositionStep]_vars
C15_Witness ==
  /\ kind = "Buffer" /\ Len(byteArray) = 3
  /\ lastOp = "advanceReadPointer" /\ lastArg = 2 /\ currentPosition = 3
  /\ discipline = "free" /\ resetFrom = "overrun"

(***************************************************************************)
(* C16 (live producer): for a RingBufferImpl, however the producer's       *)
(* appends interleave with readPointer and advanceReadPointer calls whose  *)
(* amount is at most the len the readPointer before them returned,         *)
(* currentPosition <= size() in every state, size() is the ring buffer's   *)
(* size at that moment, and bytes appended after atEnd() was true make     *)
(* atEnd() false and are what readPointer returns, at the cursor's         *)
(* position, with no reset in between.                                     *)
(***************************************************************************)
OverRing == kind = "RingBuffer"
Appends == ringBuffer' # ringBuffer
WithinLent == lastOp' = "advanceReadPointer" => (0 <= len /\ lastArg' <= len)
C16_Step ==
  OverRing
    => /\ (currentPosition <= size /\ WithinLent) => currentPosition' <= size'
       /\ Appends => /\ size' = size + 1
                     /\ currentPosition' = currentPosition
                     /\ (atEnd /\ currentPosition = size) => ~atEnd'
       /\ (lastOp' = "readPointer" /\ ~atEnd)
            => /\ len' >= 1 /\ ptr' = currentPosition
               /\ View' = SubSeq(Flatten(ringBuffer), currentPosition + 1,
                                 currentPosition + len')
C16_LiveProducer ==
  /\ []((OverRing /\ discipline # "overrun") => currentPosition <= size)
  /\ [](OverRing => size = Len(Flatten(ringBuffer)))
  /\ [][C16_Step]_vars
\* the producer appended <<3>> after the consumer had read <<1, 2>> to the end
C16_Witness ==
  /\ OverRing /\ ringBuffer = <<<<1, 2>>, <<3>>>>
  /\ prevProgress = Progress(2, 2) /\ currentPosition = 2
  /\ lastOp = "readPointer" /\ len = 1 /\ ptr = 2 /\ View = <<3>>
  /\ resetFrom = "none" /\ discipline = "loop" /\ consumed = <<1, 2>>

(***************************************************************************)
(* C17 (buffered window is re-served): a readPointer on an IoDeviceImpl    *)
(* whose chunk has unconsumed bytes and whose eof is false does not read   *)
(* the device and changes nothing of the cursor (the chunk and its two     *)
(* counters, totalAdvancements, eof, the device's position); it returns    *)
(* the unconsumed bytes, so readPointer calls in a row return the same     *)
(* window.                                                                 *)
(***************************************************************************)
Window == [ptr |-> ptr, len |-> len, bytes |-> View]
C17_Step ==
  (kind = "IoDevice" /\ lastOp' = "readPointer" /\ ~eof /\ Buffered > 0)
    => /\ UNCHANGED <<devVars, ioVars>>
       /\ ptr' = ChunkStart + currentReadBufferPosition
       /\ len' = Buffered
       /\ View' = SubSeq(currentReadBuffer, currentReadBufferPosition + 1,
                         currentReadBufferAmount)
       /\ lastOp = "readPointer" => Window' = Window
C17_BufferedReServe == [][C17_Step]_vars
\* the second of two readPointer calls over a half-consumed chunk
C17_Witness ==
  /\ kind = "IoDevice" /\ ~eof /\ lastOp = "readPointer" /\ lastArg = 1
  /\ currentReadBufferAmount = 2 /\ currentReadBufferPosition = 1
  /\ totalAdvancements = 1 /\ devPos = 2 /\ devData = Pattern(4)
  /\ len = 1 /\ View = <<2>> /\ signals = <<>>
  /\ prevProgress = Progress(1, 4)

(***************************************************************************)
(* C18 (the read loop terminates): over a random-access device of finite   *)
(* content that only this IoDeviceImpl reads, the loop "while not atEnd(): *)
(* readPointer(maxLen); if len > 0 then advanceReadPointer(len)", maxLen   *)
(* being -1 or at least 1, ends: atEnd() becomes true, and it becomes true *)
(* only in a readPointer that found the device exhausted.                  *)
(***************************************************************************)
C18_EofStep ==
  (~eof /\ eof')
    => /\ lastOp' = "readPointer"
       /\ Device_atEnd(devPos) /\ devPos' = devPos
       /\ len' = -1
C18_LoopTerminates ==
  /\ <>[]atEnd
  /\ [][C18_EofStep]_vars
C18_Witness ==
  /\ kind = "IoDevice" /\ ~devSequential /\ atEnd
  /\ lastOp = "readPointer" /\ len = -1
  /\ Len(devData) = MaxLen /\ initialPosition = 1 /\ currentReadBufferSize = 2
  /\ consumed = Content /\ totalAdvancements = MaxLen - 1

(***************************************************************************)
(* C19 (accounting): for an IoDeviceImpl over a random-access device that  *)
(* only the cursor reads, in every reachable state to which no advance     *)
(* that returned false has led since construction or the last successful   *)
(* reset, the device's position counted from initialPosition equals        *)
(* totalAdvancements plus the buffered, unconsumed bytes.                  *)
(***************************************************************************)
C19_Accounting ==
  (kind = "IoDevice" /\ ~devSequential /\ discipline # "overrun")
    => devPos - initialPosition = totalAdvancements + Buffered
\* after an overshoot: 2 bytes advanced with 1 buffered, then 1 byte fetched
C19_Witness ==
  /\ kind = "IoDevice" /\ ~devSequential /\ discipline = "free"
  /\ initialPosition = 1 /\ totalAdvancements = 2 /\ resetFrom = "overrun"
  /\ currentReadBufferAmount = 1 /\ currentReadBufferPosition = 0
  /\ currentReadBufferSize = 1
  /\ devPos = 4 /\ lastOp = "readPointer" /\ prevProgress = Progress(2, 3)

(***************************************************************************)
(* C20 (the adapter keeps to maxSize): when the cursor, of any class, is   *)
(* driven through the adapter only, every readData(data, maxSize) with     *)
(* maxSize >= 1 returns -1 or a count n with 0 <= n <= maxSize.            *)
(***************************************************************************)
C20_ReadDataReturns ==
  (pc = "readData" /\ pc' = "idle")
    => \/ readDataRet' = -1
       \/ /\ 0 <= readDataRet' /\ readDataRet' <= lastArg
          /\ Len(readDataOut') = readDataRet'
C20_ReadDataBounded ==
  /\ [][C20_ReadDataReturns]_vars
  /\ [](pc = "readData" => (lastOp = "readPointer" /\ lastArg \in MaxSizes))
  /\ [](pc = "idle" => (kind = "IoDevice" => Buffered = 0))
\* a chunk of 2 bytes, readData asking for 1 byte at a time
C20_Witness ==
  /\ pc = "idle" /\ kind = "IoDevice" /\ ~devSequential
  /\ currentReadBufferSize = 2 /\ readDataRet = 1 /\ lastArg = 1
  /\ lastOp = "advanceReadPointer" /\ readDataOut = <<2>>
  /\ delivered = <<1, 2>> /\ devPos = 2 /\ Buffered = 0

=============================================================================
